---- MODULE Spec2Model ----
(***************************************************************************)
(* Model of NutritionSystem (src/src/system_integration.py): the registry  *)
(* of active users and the public operations that sequence the calls to    *)
(* the collaborators (SensorManager, NutritionAnalyzer,                    *)
(* SupplementRecommender, IntakeManager, DataSecurity,                     *)
(* UserInterfaceManager).                                                  *)
(*                                                                         *)
(* A Python dict is a function from its keys (strings) to values.  A       *)
(* collaborator call either returns or raises; the code has no             *)
(* try/except, so a raised exception ends the operation at that call.      *)
(* Every operation records the collaborator calls it made, in order, in    *)
(* last.calls.                                                             *)
(***************************************************************************)
EXTENDS Integers, Sequences, FiniteSets, TLC

\* ---------------------------------------------------------------- bounds
\* The clock (datetime.now()) runs from 0 to MaxTime.
MaxTime == 1

\* An analysis result carries at most MaxAlerts alerts (SpecPipeline).
MaxAlerts == 2

\* An analysis result carries at most MaxAlertsSystem alerts (Spec).
MaxAlertsSystem == 1

\* Each component is started, and stopped, at most MaxStarts times.
MaxStarts == 2

\* ------------------------------------------------------------ input sets
Ids == {"u1", "u2"}

PyTrue == "True"

PyFalse == "False"

\* Severity values an analyzer may put in an alert; "critical" stands for
\* any value outside low/medium/high.
Severities == {"low", "medium", "high", "critical"}

\* An alert dict: "message" always, "severity" optionally.
Alerts == {[message |-> "m"]} \cup {[message |-> "m", severity |-> s] : s \in Severities}

\* The alert lists of at most n alerts.
AlertSeqsUpTo(n) == UNION {[1..m -> Alerts] : m \in 0..n}

\* The one user of SpecPipeline.
PipelineIds == {"u1"}

\* Registration data (the dict passed to register_user).
UserDatas == {[name |-> "n"], [name |-> "n", notify_healthcare_provider |-> PyTrue]}

\* Patches (the dict passed to update_user_profile).
Patches == {<<>>, [notify_healthcare_provider |-> PyTrue]}

ReportTypes == {"daily", "weekly", "monthly", "yearly"}

\* The threads that call the system concurrently (SpecThreads).
Threads == {"t1", "t2"}

\* The patches of the concurrent update_user_profile calls: two patches
\* with different keys.
ThreadPatches == {[notify_healthcare_provider |-> PyTrue], [name |-> "n2"]}

\* ------------------------------------------------------- python helpers
\* dict.get(key, default)
DictGet(d, key, default) == IF key \in DOMAIN d THEN d[key] ELSE default

\* truth value of a Python object (the values used here are "True"/"False"
\* and non-empty strings)
Truthy(v) == v # PyFalse

\* for key, value in update_data.items(): user_data[key] = value
Merge(d, p) == [key \in DOMAIN d \cup DOMAIN p |-> IF key \in DOMAIN p THEN p[key] ELSE d[key]]

\* del user_data[key]
DictDel(d, key) == [k \in DOMAIN d \ {key} |-> d[k]]

\* datetime.isoformat(): the stored text of a time
isoformat(t) == <<"iso", t>>

\* ------------------------------------------------------- collaborators
\* DataSecurity.encrypt_user_data / decrypt_user_data: an opaque blob that
\* decrypts to the data it was made from.
encrypt_user_data(d) == <<"cipher", d>>

decrypt_user_data(c) == c[2]

\* The five collaborators a user is registered with, in the order of the
\* calls, with the key of the token in user_profile["components"].
Components == <<"sensor", "analyzer", "recommender", "intake_manager", "ui">>

\* The token a collaborator's register_user returns.
Token(c, id) == <<c, id>>

\* The components in the order start() starts them.
StartOrder == <<"sensor", "analyzer", "recommender", "intake_manager", "security", "ui">>

\* The components in the order stop() stops them.
StopOrder == [i \in 1..Len(StartOrder) |-> StartOrder[Len(StartOrder) + 1 - i]]

\* The toggles of update_user_profile, in the order they are tested, with
\* the collaborator each forwards to.
Toggles == << <<"update_sensor_settings", "sensor">>,
              <<"update_analysis_settings", "analyzer">>,
              <<"update_recommendation_settings", "recommender">>,
              <<"update_intake_settings", "intake_manager">>,
              <<"update_ui_settings", "ui">> >>

\* A patch with every toggle set.
AllToggles == [key \in {Toggles[i][1] : i \in 1..Len(Toggles)} |-> PyTrue]

\* The patches of SpecProfile: empty, without a toggle, with a toggle set,
\* with a toggle present but false, with a toggle and another key, with
\* every toggle.
ProfilePatches ==
    {<<>>,
     [name |-> "n2"],
     [update_sensor_settings |-> PyTrue],
     [update_sensor_settings |-> PyFalse],
     [update_ui_settings |-> PyTrue, name |-> "n2"],
     AllToggles}

\* ---------------------------------------------------------------- state
VARIABLES
    active_users,   \* self.active_users: id -> user profile
    registered,     \* per collaborator, the ids it holds a registration for
    now,            \* the clock read by datetime.datetime.now()
    last,           \* the last operation: name, id, inputs, result, calls made
    is_running,     \* self.is_running
    started,        \* per component, the number of its start() calls that returned
    stopped,        \* per component, the number of its stop() calls that returned
    returned,       \* the numbers of start/stop calls that returned True or raised
    threads         \* per thread, the call it is executing and its local variables

\* The state start and stop work on.
lifecycle == <<is_running, started, stopped, returned>>

vars == <<active_users, registered, now, last, is_running, started, stopped, returned, threads>>

\* ------------------------------------------------ running an operation
\* The execution of one operation: the calls made so far, whether an
\* exception is propagating, and which call (by position) raises.
Start(fail) == [calls |-> <<>>, raised |-> FALSE, fail |-> fail]

\* One collaborator call c.m(id, ...); k is the position of the alert the
\* call is about (0 when it is about none).
Invoke(e, c, m, id, k) ==
    IF e.raised THEN e
    ELSE [e EXCEPT !.calls = Append(@, [c |-> c, m |-> m, id |-> id, k |-> k,
                                        ok |-> (Len(e.calls) + 1 # e.fail)]),
                   !.raised = (Len(e.calls) + 1 = e.fail)]

\* A call of a method of NutritionSystem itself that only logs.
InvokeSelf(e, m, id, k) ==
    IF e.raised THEN e
    ELSE [e EXCEPT !.calls = Append(@, [c |-> "self", m |-> m, id |-> id, k |-> k, ok |-> TRUE])]

\* An exception raised by the code of the operation itself (KeyError).
Raise(e) == [e EXCEPT !.raised = TRUE]

\* Results
RTrue == [status |-> "True", message |-> ""]

RFalse == [status |-> "False", message |-> ""]

RSuccess == [status |-> "success", message |-> ""]

RNotRegistered == [status |-> "error", message |-> "User not registered"]

RInvalidReport == [status |-> "error", message |-> "Invalid report type"]

RRaised == [status |-> "raised", message |-> ""]

\* The registrations the collaborators hold after the calls cs.
RegisteredAfter(reg, cs) ==
    [c \in DOMAIN reg |->
        reg[c] \cup {cs[i].id : i \in {j \in 1..Len(cs) : cs[j].c = c /\ cs[j].m = "register_user" /\ cs[j].ok}}]

\* The call chosen to raise was made (fail = 0: no call raises).
Raises(fail, cs) == IF fail = 0 THEN TRUE ELSE fail <= Len(cs) /\ ~cs[fail].ok

\* The outcome of an operation.
Outcome(users, result, e) == [users |-> users, result |-> result, calls |-> e.calls]

NoAr == <<>>

NoData == <<>>

\* No call is in progress and no result waits for the caller.
Idle ==
    [op |-> "idle", id |-> "", result |-> [status |-> "", message |-> ""], calls |-> <<>>,
     ar |-> NoAr, alerts |-> <<>>, data |-> NoData, report_type |-> "", window |-> <<>>]

Last(op, id, out, ar, alerts, data, rtype, window) ==
    [op |-> op, id |-> id, result |-> out.result, calls |-> out.calls,
     ar |-> ar, alerts |-> alerts, data |-> data, report_type |-> rtype, window |-> window]

\* ------------------------------------------------------------ operations
RECURSIVE RegisterIn(_, _, _)
\* user_profile["components"][c] = collaborator.register_user(...) for the
\* collaborators from position i on.
RegisterIn(e, id, i) ==
    IF i > Len(Components) THEN e
    ELSE RegisterIn(Invoke(e, Components[i], "register_user", id, 0), id, i + 1)

\* register_user without the test for an existing id: a second registration
\* replaces the profile.
register_user_overwrite(users, id, data, t1, t2, fail) ==
    LET e1 == Invoke(Start(fail), "security", "encrypt_user_data", id, 0)
        user_profile == [id |-> id,
                         encrypted_data |-> encrypt_user_data(data),
                         registered_at |-> isoformat(t1),
                         last_activity |-> isoformat(t2),
                         components |-> [c \in {Components[i] : i \in 1..Len(Components)} |-> Token(c, id)]]
        e2 == RegisterIn(e1, id, 1)
    IN IF e2.raised THEN Outcome(users, RRaised, e2)
       ELSE Outcome([x \in DOMAIN users \cup {id} |-> IF x = id THEN user_profile ELSE users[x]],
                    RTrue, e2)

\* register_user that adds the profile to active_users before it registers
\* the id with the collaborators.
register_user_insert_first(users, id, data, t1, t2, fail) ==
    IF id \in DOMAIN users THEN Outcome(users, RFalse, Start(fail))
    ELSE LET e1 == Invoke(Start(fail), "security", "encrypt_user_data", id, 0)
             user_profile == [id |-> id,
                              encrypted_data |-> encrypt_user_data(data),
                              registered_at |-> isoformat(t1),
                              last_activity |-> isoformat(t2),
                              components |-> [c \in {Components[i] : i \in 1..Len(Components)} |-> Token(c, id)]]
             e2 == RegisterIn(e1, id, 1)
             u1 == IF e1.raised THEN users
                   ELSE [x \in DOMAIN users \cup {id} |-> IF x = id THEN user_profile ELSE users[x]]
         IN Outcome(u1, IF e2.raised THEN RRaised ELSE RTrue, e2)

register_user(users, id, data, t1, t2, fail) ==
    IF id \in DOMAIN users THEN Outcome(users, RFalse, Start(fail))
    ELSE LET e1 == Invoke(Start(fail), "security", "encrypt_user_data", id, 0)
             user_profile == [id |-> id,
                              encrypted_data |-> encrypt_user_data(data),
                              registered_at |-> isoformat(t1),
                              last_activity |-> isoformat(t2),
                              components |-> [c \in {Components[i] : i \in 1..Len(Components)} |-> Token(c, id)]]
             e2 == RegisterIn(e1, id, 1)
         IN IF e2.raised THEN Outcome(users, RRaised, e2)
            ELSE Outcome([x \in DOMAIN users \cup {id} |-> IF x = id THEN user_profile ELSE users[x]],
                         RTrue, e2)

RegisterUser(I) ==
    /\ last = Idle
    /\ \E id \in I, data \in UserDatas, fail \in 0..(Len(Components) + 1), t2 \in now..(now + 1) :
        /\ t2 <= MaxTime
        /\ LET out == register_user(active_users, id, data, now, t2, fail) IN
            /\ Raises(fail, out.calls)
            /\ active_users' = out.users
            /\ registered' = RegisteredAfter(registered, out.calls)
            /\ now' = IF id \in DOMAIN active_users THEN now ELSE t2
            /\ last' = Last("register_user", id, out, NoAr, <<>>, data, "", <<>>)
            /\ UNCHANGED <<lifecycle, threads>>

\* handle_health_alert with "if" in place of "elif" for medium: an alert
\* that is not medium also takes the final else branch.
handle_health_alert_if(e, users, id, alert, k) ==
    LET severity == DictGet(alert, "severity", "medium")
        e2 == IF severity = "high" THEN
                  LET e1 == Invoke(e, "ui", "send_urgent_notification", id, k) IN
                  IF e1.raised THEN e1
                  ELSE IF id \notin DOMAIN users THEN Raise(e1)
                  ELSE IF Truthy(DictGet(users[id], "notify_healthcare_provider", PyFalse))
                       THEN InvokeSelf(e1, "_notify_healthcare_provider", id, k)
                       ELSE e1
              ELSE e
    IN IF e.raised THEN e
       ELSE IF severity = "medium" THEN Invoke(e2, "ui", "send_notification", id, k)
       ELSE Invoke(e2, "ui", "add_to_health_report", id, k)

\* handle_health_alert(user_id, alert); k is the position of the alert in
\* the sequence being dispatched.
handle_health_alert(e, users, id, alert, k) ==
    LET severity == DictGet(alert, "severity", "medium") IN
    IF e.raised THEN e
    ELSE IF severity = "high" THEN
        LET e1 == Invoke(e, "ui", "send_urgent_notification", id, k) IN
        IF e1.raised THEN e1
        ELSE IF id \notin DOMAIN users THEN Raise(e1)
        ELSE IF Truthy(DictGet(users[id], "notify_healthcare_provider", PyFalse))
             THEN InvokeSelf(e1, "_notify_healthcare_provider", id, k)
             ELSE e1
    ELSE IF severity = "medium" THEN Invoke(e, "ui", "send_notification", id, k)
    ELSE Invoke(e, "ui", "add_to_health_report", id, k)

RECURSIVE HandleAlerts(_, _, _, _, _)
\* for alert in alerts: self.handle_health_alert(user_id, alert)
HandleAlerts(e, users, id, alerts, k) ==
    IF k > Len(alerts) THEN e
    ELSE HandleAlerts(handle_health_alert(e, users, id, alerts[k], k), users, id, alerts, k + 1)

\* The body of update_recommendations after the registration test.
Recommend(e, id) ==
    LET e1 == Invoke(e, "recommender", "recommend", id, 0)
        e2 == Invoke(e1, "intake_manager", "update_schedule", id, 0)
    IN Invoke(e2, "ui", "update_supplement_data", id, 0)

update_recommendations(users, id, fail) ==
    IF id \notin DOMAIN users THEN Outcome(users, RNotRegistered, Start(fail))
    ELSE LET e == Recommend(Start(fail), id) IN
         Outcome(users, IF e.raised THEN RRaised ELSE RSuccess, e)

\* The pipeline with the recommendation stage run for every analysis
\* result.
Pipeline_always_recommend(e, users, id, ar) ==
    LET e1 == Invoke(e, "sensor", "process_data", id, 0)
        e2 == Invoke(e1, "analyzer", "analyze", id, 0)
        e3 == IF e2.raised THEN e2
              ELSE IF id \in DOMAIN users THEN Recommend(e2, id) ELSE e2
        e4 == HandleAlerts(e3, users, id, DictGet(ar, "alerts", <<>>), 1)
    IN Invoke(e4, "ui", "update_health_data", id, 0)

\* The pipeline with the user-interface update before the alerts.
Pipeline_ui_first(e, users, id, ar) ==
    LET e1 == Invoke(e, "sensor", "process_data", id, 0)
        e2 == Invoke(e1, "analyzer", "analyze", id, 0)
        e3 == IF e2.raised THEN e2
              ELSE IF Truthy(DictGet(ar, "update_recommendation", PyFalse)) /\ id \in DOMAIN users
                   THEN Recommend(e2, id)
                   ELSE e2
        e4 == Invoke(e3, "ui", "update_health_data", id, 0)
    IN HandleAlerts(e4, users, id, DictGet(ar, "alerts", <<>>), 1)

\* The pipeline with the sensor stage's exception caught and ignored.
Pipeline_sensor_ignored(e, users, id, ar) ==
    LET e1 == [Invoke(e, "sensor", "process_data", id, 0) EXCEPT !.raised = FALSE]
        e2 == Invoke(e1, "analyzer", "analyze", id, 0)
        e3 == IF e2.raised THEN e2
              ELSE IF Truthy(DictGet(ar, "update_recommendation", PyFalse)) /\ id \in DOMAIN users
                   THEN Recommend(e2, id)
                   ELSE e2
        e4 == HandleAlerts(e3, users, id, DictGet(ar, "alerts", <<>>), 1)
    IN Invoke(e4, "ui", "update_health_data", id, 0)

\* The stages of process_sensor_data after the update of last_activity;
\* ar is the analysis result the analyzer returns.
Pipeline(e, users, id, ar) ==
    LET e1 == Invoke(e, "sensor", "process_data", id, 0)
        e2 == Invoke(e1, "analyzer", "analyze", id, 0)
        e3 == IF e2.raised THEN e2
              ELSE IF Truthy(DictGet(ar, "update_recommendation", PyFalse)) /\ id \in DOMAIN users
                   THEN Recommend(e2, id)
                   ELSE e2
        e4 == HandleAlerts(e3, users, id, DictGet(ar, "alerts", <<>>), 1)
    IN Invoke(e4, "ui", "update_health_data", id, 0)

process_sensor_data(users, id, ar, t, fail) ==
    IF id \notin DOMAIN users THEN Outcome(users, RNotRegistered, Start(fail))
    ELSE LET u1 == [users EXCEPT ![id].last_activity = isoformat(t)]
             e == Pipeline(Start(fail), u1, id, ar)
         IN Outcome(u1, IF e.raised THEN RRaised ELSE RSuccess, e)

record_supplement_intake(users, id, t, fail) ==
    IF id \notin DOMAIN users THEN Outcome(users, RNotRegistered, Start(fail))
    ELSE LET u1 == [users EXCEPT ![id].last_activity = isoformat(t)]
             e1 == Invoke(Start(fail), "intake_manager", "record_intake", id, 0)
             e2 == Invoke(e1, "ui", "update_intake_status", id, 0)
         IN Outcome(u1, IF e2.raised THEN RRaised ELSE RSuccess, e2)

\* get_user_dashboard without the test for an unknown id.
get_user_dashboard_unchecked(users, id, t, fail) ==
    LET u1 == IF id \in DOMAIN users THEN [users EXCEPT ![id].last_activity = isoformat(t)] ELSE users
        e1 == Invoke(Start(fail), "analyzer", "get_health_data", id, 0)
        e2 == Invoke(e1, "intake_manager", "get_schedule", id, 0)
        e3 == Invoke(e2, "intake_manager", "get_compliance_rate", id, 0)
    IN Outcome(u1, IF e3.raised THEN RRaised ELSE RSuccess, e3)

get_user_dashboard(users, id, t, fail) ==
    IF id \notin DOMAIN users THEN Outcome(users, RNotRegistered, Start(fail))
    ELSE LET u1 == [users EXCEPT ![id].last_activity = isoformat(t)]
             e1 == Invoke(Start(fail), "analyzer", "get_health_data", id, 0)
             e2 == Invoke(e1, "intake_manager", "get_schedule", id, 0)
             e3 == Invoke(e2, "intake_manager", "get_compliance_rate", id, 0)
         IN Outcome(u1, IF e3.raised THEN RRaised ELSE RSuccess, e3)

\* The date window with the weekly report spanning 30 days and the monthly
\* report 7.
ReportWindow_swapped(report_type, end_date) ==
    IF report_type = "daily" THEN <<end_date, end_date>>
    ELSE IF report_type = "weekly" THEN <<end_date - 30, end_date>>
    ELSE IF report_type = "monthly" THEN <<end_date - 7, end_date>>
    ELSE <<>>

\* The date window of a report; the clock counts whole days.
\* <<>> for a report type that is not recognised.
ReportWindow(report_type, end_date) ==
    IF report_type = "daily" THEN <<end_date, end_date>>
    ELSE IF report_type = "weekly" THEN <<end_date - 7, end_date>>
    ELSE IF report_type = "monthly" THEN <<end_date - 30, end_date>>
    ELSE <<>>

get_health_report(users, id, report_type, t, fail) ==
    IF id \notin DOMAIN users THEN Outcome(users, RNotRegistered, Start(fail))
    ELSE LET u1 == [users EXCEPT ![id].last_activity = isoformat(t)] IN
         IF ReportWindow(report_type, t) = <<>> THEN Outcome(u1, RInvalidReport, Start(fail))
         ELSE LET e1 == Invoke(Start(fail), "analyzer", "get_health_data", id, 0)
                  e2 == Invoke(e1, "intake_manager", "get_intake_history", id, 0)
                  e3 == Invoke(e2, "intake_manager", "get_compliance_rate", id, 0)
                  e4 == Invoke(e3, "analyzer", "get_trends", id, 0)
              IN Outcome(u1, IF e4.raised THEN RRaised ELSE RSuccess, e4)

\* The dict get_user_profile returns as "profile".
ProfileView(profile) ==
    Merge(DictDel(decrypt_user_data(profile.encrypted_data), "password"),
          [registered_at |-> profile.registered_at, last_activity |-> profile.last_activity])

\* get_user_profile that sets last_activity in the profile of every user.
get_user_profile_touch_all(users, id, t, fail) ==
    IF id \notin DOMAIN users THEN Outcome(users, RNotRegistered, Start(fail))
    ELSE LET u1 == [x \in DOMAIN users |-> [users[x] EXCEPT !.last_activity = isoformat(t)]]
             e1 == Invoke(Start(fail), "security", "decrypt_user_data", id, 0)
         IN Outcome(u1, IF e1.raised THEN RRaised ELSE RSuccess, e1)

get_user_profile(users, id, t, fail) ==
    IF id \notin DOMAIN users THEN Outcome(users, RNotRegistered, Start(fail))
    ELSE LET u1 == [users EXCEPT ![id].last_activity = isoformat(t)]
             e1 == Invoke(Start(fail), "security", "decrypt_user_data", id, 0)
         IN Outcome(u1, IF e1.raised THEN RRaised ELSE RSuccess, e1)

RECURSIVE ForwardSettings_always(_, _, _, _)
\* The settings update forwarded to every collaborator, whatever the patch.
ForwardSettings_always(e, id, update_data, i) ==
    IF i > Len(Toggles) THEN e
    ELSE ForwardSettings_always(Invoke(e, Toggles[i][2], "update_user_settings", id, 0),
                                id, update_data, i + 1)

RECURSIVE ForwardSettings(_, _, _, _)
\* if update_data.get(toggle, False): collaborator.update_user_settings(...)
ForwardSettings(e, id, update_data, i) ==
    IF i > Len(Toggles) THEN e
    ELSE ForwardSettings(IF Truthy(DictGet(update_data, Toggles[i][1], PyFalse))
                         THEN Invoke(e, Toggles[i][2], "update_user_settings", id, 0)
                         ELSE e,
                         id, update_data, i + 1)

\* update_user_profile that stores the patch in place of the merged data.
update_user_profile_replace(users, id, update_data, t, fail) ==
    IF id \notin DOMAIN users THEN Outcome(users, RNotRegistered, Start(fail))
    ELSE LET u1 == [users EXCEPT ![id].last_activity = isoformat(t)]
             e1 == Invoke(Start(fail), "security", "decrypt_user_data", id, 0)
             e2 == Invoke(e1, "security", "encrypt_user_data", id, 0)
             u2 == IF e2.raised THEN u1
                   ELSE [u1 EXCEPT ![id].encrypted_data = encrypt_user_data(update_data)]
             e3 == ForwardSettings(e2, id, update_data, 1)
         IN Outcome(u2, IF e3.raised THEN RRaised ELSE RSuccess, e3)

update_user_profile(users, id, update_data, t, fail) ==
    IF id \notin DOMAIN users THEN Outcome(users, RNotRegistered, Start(fail))
    ELSE LET u1 == [users EXCEPT ![id].last_activity = isoformat(t)]
             e1 == Invoke(Start(fail), "security", "decrypt_user_data", id, 0)
             user_data == Merge(decrypt_user_data(u1[id].encrypted_data), update_data)
             e2 == Invoke(e1, "security", "encrypt_user_data", id, 0)
             u2 == IF e2.raised THEN u1
                   ELSE [u1 EXCEPT ![id].encrypted_data = encrypt_user_data(user_data)]
             e3 == ForwardSettings(e2, id, update_data, 1)
         IN Outcome(u2, IF e3.raised THEN RRaised ELSE RSuccess, e3)

\* The analysis results an analyzer may return.
AnalysisResult(upd, alerts, hasAlerts) ==
    (IF upd = "absent" THEN <<>> ELSE [update_recommendation |-> upd])
    @@ (IF hasAlerts THEN [alerts |-> alerts] ELSE <<>>)

\* The analyzer returned an analysis result during the calls cs.
Analyzed(cs) == \E i \in 1..Len(cs) : cs[i].m = "analyze" /\ cs[i].ok

\* n bounds the alerts of the analysis result.
ProcessSensorData(I, n) ==
    /\ last = Idle
    /\ \E id \in I, fail \in 0..(6 + n) :
        \E upd \in (IF id \in DOMAIN active_users /\ fail \notin 1..2 THEN {"absent", PyTrue, PyFalse} ELSE {"absent"}),
           alerts \in (IF id \in DOMAIN active_users /\ fail \notin 1..2 THEN AlertSeqsUpTo(n) ELSE {<<>>}) :
            \E hasAlerts \in (IF alerts = <<>> THEN BOOLEAN ELSE {TRUE}) :
                LET ar == AnalysisResult(upd, alerts, hasAlerts)
                    out == process_sensor_data(active_users, id, ar, now, fail) IN
                    /\ Raises(fail, out.calls)
                    /\ IF Analyzed(out.calls) THEN TRUE ELSE ar = NoAr
                    /\ active_users' = out.users
                    /\ last' = IF Analyzed(out.calls)
                               THEN Last("process_sensor_data", id, out, ar, DictGet(ar, "alerts", <<>>), NoData, "", <<>>)
                               ELSE Last("process_sensor_data", id, out, NoAr, <<>>, NoData, "", <<>>)
                    /\ UNCHANGED <<registered, now, lifecycle, threads>>

UpdateRecommendations(I) ==
    /\ last = Idle
    /\ \E id \in I, fail \in 0..3 :
        LET out == update_recommendations(active_users, id, fail) IN
            /\ Raises(fail, out.calls)
            /\ active_users' = out.users
            /\ last' = Last("update_recommendations", id, out, NoAr, <<>>, NoData, "", <<>>)
            /\ UNCHANGED <<registered, now, lifecycle, threads>>

RecordSupplementIntake(I) ==
    /\ last = Idle
    /\ \E id \in I, fail \in 0..2 :
        LET out == record_supplement_intake(active_users, id, now, fail) IN
            /\ Raises(fail, out.calls)
            /\ active_users' = out.users
            /\ last' = Last("record_supplement_intake", id, out, NoAr, <<>>, NoData, "", <<>>)
            /\ UNCHANGED <<registered, now, lifecycle, threads>>

HandleHealthAlert(I) ==
    /\ last = Idle
    /\ \E id \in I, alert \in Alerts, fail \in 0..1 :
        LET e == handle_health_alert(Start(fail), active_users, id, alert, 1)
            out == Outcome(active_users, IF e.raised THEN RRaised ELSE RSuccess, e) IN
            /\ IF e.raised THEN fail <= 1 ELSE fail = 0
            /\ last' = Last("handle_health_alert", id, out, NoAr, <<alert>>, NoData, "", <<>>)
            /\ UNCHANGED <<active_users, registered, now, lifecycle, threads>>

GetUserDashboard(I) ==
    /\ last = Idle
    /\ \E id \in I, fail \in 0..3 :
        LET out == get_user_dashboard(active_users, id, now, fail) IN
            /\ Raises(fail, out.calls)
            /\ active_users' = out.users
            /\ last' = Last("get_user_dashboard", id, out, NoAr, <<>>, NoData, "", <<>>)
            /\ UNCHANGED <<registered, now, lifecycle, threads>>

GetHealthReport(I) ==
    /\ last = Idle
    /\ \E id \in I, report_type \in ReportTypes, fail \in 0..4 :
        LET out == get_health_report(active_users, id, report_type, now, fail) IN
            /\ Raises(fail, out.calls)
            /\ active_users' = out.users
            /\ last' = Last("get_health_report", id, out, NoAr, <<>>, NoData, report_type,
                            IF out.result = RSuccess THEN ReportWindow(report_type, now) ELSE <<>>)
            /\ UNCHANGED <<registered, now, lifecycle, threads>>

GetUserProfile(I) ==
    /\ last = Idle
    /\ \E id \in I, fail \in 0..1 :
        LET out == get_user_profile(active_users, id, now, fail) IN
            /\ Raises(fail, out.calls)
            /\ active_users' = out.users
            /\ last' = Last("get_user_profile", id, out, NoAr, <<>>,
                            IF out.result = RSuccess THEN ProfileView(out.users[id]) ELSE NoData,
                            "", <<>>)
            /\ UNCHANGED <<registered, now, lifecycle, threads>>

\* P is the set of the patches the callers pass.
UpdateUserProfile(I, P) ==
    /\ last = Idle
    /\ \E id \in I, update_data \in P, fail \in 0..(2 + Len(Toggles)) :
        LET out == update_user_profile(active_users, id, update_data, now, fail) IN
            /\ Raises(fail, out.calls)
            /\ active_users' = out.users
            /\ last' = Last("update_user_profile", id, out, NoAr, <<>>, update_data, "", <<>>)
            /\ UNCHANGED <<registered, now, lifecycle, threads>>

\* Time passes.
Tick ==
    /\ last = Idle
    /\ now < MaxTime
    /\ now' = now + 1
    /\ UNCHANGED <<active_users, registered, last, lifecycle, threads>>

\* The caller takes the result of the call; the next call can start.
Return ==
    /\ last # Idle
    /\ last' = Idle
    /\ UNCHANGED <<active_users, registered, now, lifecycle, threads>>

\* ------------------------------------------------------- start and stop
RECURSIVE InvokeAll(_, _, _, _)
\* component.m() for the components of order from position i on.
InvokeAll(e, order, m, i) ==
    IF i > Len(order) THEN e
    ELSE InvokeAll(Invoke(e, order[i], m, "", 0), order, m, i + 1)

\* start that starts the components whether or not the system is running.
start_unchecked(running, fail) ==
    LET e == InvokeAll(Start(fail), StartOrder, "start", 1) IN
    [is_running |-> IF e.raised THEN running ELSE TRUE,
     result |-> IF e.raised THEN RRaised ELSE RTrue, calls |-> e.calls]

start(running, fail) ==
    IF running THEN [is_running |-> running, result |-> RFalse, calls |-> <<>>]
    ELSE LET e == InvokeAll(Start(fail), StartOrder, "start", 1) IN
         [is_running |-> IF e.raised THEN running ELSE TRUE,
          result |-> IF e.raised THEN RRaised ELSE RTrue, calls |-> e.calls]

stop(running, fail) ==
    IF ~running THEN [is_running |-> running, result |-> RFalse, calls |-> <<>>]
    ELSE LET e == InvokeAll(Start(fail), StopOrder, "stop", 1) IN
         [is_running |-> IF e.raised THEN running ELSE FALSE,
          result |-> IF e.raised THEN RRaised ELSE RTrue, calls |-> e.calls]

\* The counts of the calls of m that returned, after the calls cs.
CountAfter(cnt, cs, m) ==
    [c \in DOMAIN cnt |->
        cnt[c] + Cardinality({i \in 1..Len(cs) : cs[i].c = c /\ cs[i].m = m /\ cs[i].ok})]

\* The record of the start/stop calls that returned True or raised.
ReturnedAfter(ret, op, result) ==
    [ret EXCEPT ![op] = IF result = RTrue THEN @ + 1 ELSE @,
                !.raised = @ \/ result = RRaised]

StartSystem ==
    /\ last = Idle
    /\ IF is_running THEN TRUE ELSE \A c \in DOMAIN started : started[c] < MaxStarts
    /\ \E fail \in 0..Len(StartOrder) :
        LET out == start(is_running, fail) IN
            /\ Raises(fail, out.calls)
            /\ is_running' = out.is_running
            /\ started' = CountAfter(started, out.calls, "start")
            /\ returned' = ReturnedAfter(returned, "start", out.result)
            /\ last' = Last("start", "", out, NoAr, <<>>, NoData, "", <<>>)
            /\ UNCHANGED <<active_users, registered, now, stopped, threads>>

StopSystem ==
    /\ last = Idle
    /\ IF is_running THEN \A c \in DOMAIN stopped : stopped[c] < MaxStarts ELSE TRUE
    /\ \E fail \in 0..Len(StopOrder) :
        LET out == stop(is_running, fail) IN
            /\ Raises(fail, out.calls)
            /\ is_running' = out.is_running
            /\ stopped' = CountAfter(stopped, out.calls, "stop")
            /\ returned' = ReturnedAfter(returned, "stop", out.result)
            /\ last' = Last("stop", "", out, NoAr, <<>>, NoData, "", <<>>)
            /\ UNCHANGED <<active_users, registered, now, started, threads>>

\* ------------------------------------------------------ concurrent calls
\* A thread executes one call at a time, statement by statement; another
\* thread can run between two statements.  The collaborator calls return.
\* A thread that is not in a call.
NoCall ==
    [op |-> "idle", pc |-> "idle", id |-> "", data |-> NoData, t |-> 0, tmp |-> <<>>,
     result |-> [status |-> "", message |-> ""]]

\* A thread that has entered op with the arguments id and data, at pc.
InCall(op, id, data, pc) == [NoCall EXCEPT !.op = op, !.id = id, !.data = data, !.pc = pc]

\* The thread returns result.
Done(thread, result) == [thread EXCEPT !.pc = "done", !.result = result]

\* The user_profile dict register_user builds.
UserProfile(id, data, t1, t2) ==
    [id |-> id,
     encrypted_data |-> encrypt_user_data(data),
     registered_at |-> isoformat(t1),
     last_activity |-> isoformat(t2),
     components |-> [c \in {Components[i] : i \in 1..Len(Components)} |-> Token(c, id)]]

\* register_user: if user_id in self.active_users: return False
RegisterCheck(th) ==
    /\ threads[th].pc = "idle"
    /\ \E id \in PipelineIds, data \in UserDatas :
        threads' = [threads EXCEPT ![th] =
            IF id \in DOMAIN active_users
            THEN Done(InCall("register_user", id, data, "idle"), RFalse)
            ELSE InCall("register_user", id, data, "encrypt")]
    /\ UNCHANGED <<active_users, registered, now, last, lifecycle>>

\* register_user: encrypt the data, build user_profile, register the id with
\* the five collaborators.
RegisterCollaborators(th) ==
    /\ threads[th].op = "register_user" /\ threads[th].pc = "encrypt"
    /\ threads' = [threads EXCEPT ![th].pc = "insert",
                                  ![th].tmp = UserProfile(threads[th].id, threads[th].data, now, now)]
    /\ registered' = [c \in DOMAIN registered |-> registered[c] \cup {threads[th].id}]
    /\ UNCHANGED <<active_users, now, last, lifecycle>>

\* register_user: self.active_users[user_id] = user_profile; return True
RegisterInsert(th) ==
    /\ threads[th].op = "register_user" /\ threads[th].pc = "insert"
    /\ active_users' = [x \in DOMAIN active_users \cup {threads[th].id} |->
                            IF x = threads[th].id THEN threads[th].tmp ELSE active_users[x]]
    /\ threads' = [threads EXCEPT ![th] = Done(@, RTrue)]
    /\ UNCHANGED <<registered, now, last, lifecycle>>

\* process_sensor_data: if user_id not in self.active_users: return error
SensorCheck(th) ==
    /\ threads[th].pc = "idle"
    /\ \E id \in PipelineIds :
        threads' = [threads EXCEPT ![th] =
            IF id \notin DOMAIN active_users
            THEN Done(InCall("process_sensor_data", id, NoData, "idle"), RNotRegistered)
            ELSE InCall("process_sensor_data", id, NoData, "read_clock")]
    /\ UNCHANGED <<active_users, registered, now, last, lifecycle>>

\* process_sensor_data: the right-hand side datetime.datetime.now().isoformat()
SensorReadClock(th) ==
    /\ threads[th].op = "process_sensor_data" /\ threads[th].pc = "read_clock"
    /\ threads' = [threads EXCEPT ![th].pc = "store_activity", ![th].t = now]
    /\ UNCHANGED <<active_users, registered, now, last, lifecycle>>

\* process_sensor_data: the store self.active_users[user_id]["last_activity"] = ...
SensorStoreActivity(th) ==
    /\ threads[th].op = "process_sensor_data" /\ threads[th].pc = "store_activity"
    /\ active_users' = [active_users EXCEPT ![threads[th].id].last_activity = isoformat(threads[th].t)]
    /\ threads' = [threads EXCEPT ![th].pc = "pipeline"]
    /\ UNCHANGED <<registered, now, last, lifecycle>>

\* process_sensor_data: the stages, which call collaborators only, and the
\* return.
SensorPipeline(th) ==
    /\ threads[th].op = "process_sensor_data" /\ threads[th].pc = "pipeline"
    /\ threads' = [threads EXCEPT ![th] = Done(@, RSuccess)]
    /\ UNCHANGED <<active_users, registered, now, last, lifecycle>>

\* update_user_profile: if user_id not in self.active_users: return error
ProfileCheck(th) ==
    /\ threads[th].pc = "idle"
    /\ \E id \in PipelineIds, update_data \in ThreadPatches :
        threads' = [threads EXCEPT ![th] =
            IF id \notin DOMAIN active_users
            THEN Done(InCall("update_user_profile", id, update_data, "idle"), RNotRegistered)
            ELSE InCall("update_user_profile", id, update_data, "stamp")]
    /\ UNCHANGED <<active_users, registered, now, last, lifecycle>>

\* update_user_profile: self.active_users[user_id]["last_activity"] = now
ProfileStamp(th) ==
    /\ threads[th].op = "update_user_profile" /\ threads[th].pc = "stamp"
    /\ active_users' = [active_users EXCEPT ![threads[th].id].last_activity = isoformat(now)]
    /\ threads' = [threads EXCEPT ![th].pc = "merge", ![th].t = now]
    /\ UNCHANGED <<registered, now, last, lifecycle>>

\* update_user_profile: read encrypted_data, decrypt, merge the patch,
\* encrypt into the local updated_encrypted_data.
ProfileMerge(th) ==
    /\ threads[th].op = "update_user_profile" /\ threads[th].pc = "merge"
    /\ threads' = [threads EXCEPT
            ![th].pc = "store",
            ![th].tmp = encrypt_user_data(Merge(decrypt_user_data(active_users[threads[th].id].encrypted_data),
                                                threads[th].data))]
    /\ UNCHANGED <<active_users, registered, now, last, lifecycle>>

\* update_user_profile: self.active_users[user_id]["encrypted_data"] =
\* updated_encrypted_data; no toggle is in the patch; return success.
ProfileStore(th) ==
    /\ threads[th].op = "update_user_profile" /\ threads[th].pc = "store"
    /\ active_users' = [active_users EXCEPT ![threads[th].id].encrypted_data = threads[th].tmp]
    /\ threads' = [threads EXCEPT ![th] = Done(@, RSuccess)]
    /\ UNCHANGED <<registered, now, last, lifecycle>>

\* The caller takes the result of the thread's call.
ThreadReturn(th) ==
    /\ threads[th].pc = "done"
    /\ threads' = [threads EXCEPT ![th] = NoCall]
    /\ UNCHANGED <<active_users, registered, now, last, lifecycle>>

Init ==
    /\ active_users = <<>>
    /\ registered = [c \in {Components[i] : i \in 1..Len(Components)} |-> {}]
    /\ now = 0
    /\ last = Idle
    /\ is_running = FALSE
    /\ started = [c \in {StartOrder[i] : i \in 1..Len(StartOrder)} |-> 0]
    /\ stopped = [c \in {StartOrder[i] : i \in 1..Len(StartOrder)} |-> 0]
    /\ returned = [start |-> 0, stop |-> 0, raised |-> FALSE]
    /\ threads = [th \in Threads |-> NoCall]

\* The system with the users Ids and short alert lists.
Next ==
    \/ RegisterUser(Ids)
    \/ ProcessSensorData(Ids, MaxAlertsSystem)
    \/ UpdateRecommendations(Ids)
    \/ RecordSupplementIntake(Ids)
    \/ HandleHealthAlert(Ids)
    \/ GetUserDashboard(Ids)
    \/ GetHealthReport(Ids)
    \/ GetUserProfile(Ids)
    \/ UpdateUserProfile(Ids, Patches)
    \/ Return
    \/ Tick

Spec == Init /\ [][Next]_vars

\* The system with one user and the alert lists of up to MaxAlerts alerts.
NextPipeline ==
    \/ RegisterUser(PipelineIds)
    \/ ProcessSensorData(PipelineIds, MaxAlerts)
    \/ UpdateRecommendations(PipelineIds)
    \/ RecordSupplementIntake(PipelineIds)
    \/ HandleHealthAlert(PipelineIds)
    \/ GetUserDashboard(PipelineIds)
    \/ GetHealthReport(PipelineIds)
    \/ GetUserProfile(PipelineIds)
    \/ UpdateUserProfile(PipelineIds, Patches)
    \/ Return
    \/ Tick

SpecPipeline == Init /\ [][NextPipeline]_vars

\* start and stop called one after the other.
NextLifecycle ==
    \/ StartSystem
    \/ StopSystem
    \/ Return

SpecLifecycle == Init /\ [][NextLifecycle]_vars

\* register_user, process_sensor_data and update_user_profile called from
\* the threads Threads.
NextThreads ==
    \/ \E th \in Threads : RegisterCheck(th)
    \/ \E th \in Threads : RegisterCollaborators(th)
    \/ \E th \in Threads : RegisterInsert(th)
    \/ \E th \in Threads : SensorCheck(th)
    \/ \E th \in Threads : SensorReadClock(th)
    \/ \E th \in Threads : SensorStoreActivity(th)
    \/ \E th \in Threads : SensorPipeline(th)
    \/ \E th \in Threads : ProfileCheck(th)
    \/ \E th \in Threads : ProfileStamp(th)
    \/ \E th \in Threads : ProfileMerge(th)
    \/ \E th \in Threads : ProfileStore(th)
    \/ \E th \in Threads : ThreadReturn(th)
    \/ Tick

SpecThreads == Init /\ [][NextThreads]_vars

\* The profile operations for one user, with the patches ProfilePatches.
NextProfile ==
    \/ RegisterUser(PipelineIds)
    \/ GetUserProfile(PipelineIds)
    \/ UpdateUserProfile(PipelineIds, ProfilePatches)
    \/ Return
    \/ Tick

SpecProfile == Init /\ [][NextProfile]_vars

\* ------------------------------------------------------------ properties
\* The user data stored for a registered id, decrypted.
StoredData(id) == decrypt_user_data(active_users[id].encrypted_data)

\* The positions in cs of the calls of method m about alert k.
CallsOf(cs, m, k) == {i \in 1..Len(cs) : cs[i].m = m /\ cs[i].k = k}

\* The methods that dispatch an alert to the user interface.
DispatchMethods == {"send_urgent_notification", "send_notification", "add_to_health_report"}

\* The positions in cs of the user-interface calls that dispatch alert k.
Dispatches(cs, k) == {i \in 1..Len(cs) : cs[i].m \in DispatchMethods /\ cs[i].k = k}

\* The operations that test the registration of the id first.
LookupOps == {"process_sensor_data", "update_recommendations", "record_supplement_intake",
              "get_user_dashboard", "get_health_report", "get_user_profile", "update_user_profile"}

\* C1: a register_user call for an id that is already registered returns
\* False (AlreadyExists), makes no collaborator call, and leaves the registry
\* (payload, registered_at, last_activity, components of every profile) and
\* the collaborators' registrations as they were.
C1_DuplicateRegistrationRejected ==
    [][(last'.op = "register_user" /\ last'.id \in DOMAIN active_users)
        => (/\ last'.result = RFalse
            /\ last'.calls = <<>>
            /\ active_users' = active_users
            /\ registered' = registered)]_vars

\* C1 witness: a second registration, with other data than the stored data,
\* was rejected and the stored data is still that of the first.
C1_Witness ==
    /\ last.op = "register_user"
    /\ last.result = RFalse
    /\ last.id \in DOMAIN active_users
    /\ StoredData(last.id) # last.data

\* C2: each of the seven operations, called with an id that is not in the
\* registry, returns the "User not registered" error, calls no collaborator
\* and changes neither the registry nor the collaborators' registrations.
C2_UnknownIdNoEffect ==
    [][(last'.op \in LookupOps /\ last'.id \notin DOMAIN active_users)
        => (/\ last'.result = RNotRegistered
            /\ last'.calls = <<>>
            /\ active_users' = active_users
            /\ registered' = registered
            /\ now' = now)]_vars

\* C2 witness: an operation was refused for an unknown id while another id
\* is registered.
C2_Witness ==
    /\ last.op \in LookupOps
    /\ last.id \notin DOMAIN active_users
    /\ last.result = RNotRegistered
    /\ DOMAIN active_users # {}

\* C3: an id has a profile in the registry exactly when it is registered with
\* all five collaborators, and a register_user call in which a collaborator
\* registration fails creates no profile.
C3_ProfileIffAllRegistered ==
    /\ \A id \in Ids :
        id \in DOMAIN active_users <=> (\A c \in DOMAIN registered : id \in registered[c])
    /\ (last.op = "register_user" /\ \E i \in 1..Len(last.calls) : ~last.calls[i].ok)
        => last.id \notin DOMAIN active_users

\* C3 witness: a registration failed at a collaborator after another
\* collaborator had accepted the id, and the id has no profile.
C3_Witness ==
    /\ last.op = "register_user"
    /\ last.result = RRaised
    /\ \E i \in 1..Len(last.calls) : last.calls[i].m = "register_user" /\ last.calls[i].ok
    /\ last.id \notin DOMAIN active_users

\* C4: after a register_user call in which a collaborator registration
\* failed, the collaborators registered before it have been asked to
\* deregister the id: the id is registered with no collaborator.
C4_RollbackOnFailure ==
    (last.op = "register_user" /\ last.result = RRaised)
        => (/\ \A c \in DOMAIN registered : last.id \notin registered[c]
            /\ \A i \in 1..Len(last.calls) :
                (last.calls[i].m = "register_user" /\ last.calls[i].ok)
                    => \E j \in (i + 1)..Len(last.calls) :
                        last.calls[j].c = last.calls[i].c /\ last.calls[j].m = "deregister_user")

\* The severity the dispatch of an alert is decided on.
SeverityOf(alert) == DictGet(alert, "severity", "medium")

\* The place of a call in the order of the stages of process_sensor_data.
StageOf(call) ==
    IF call.m = "process_data" THEN 1
    ELSE IF call.m = "analyze" THEN 2
    ELSE IF call.m = "recommend" THEN 3
    ELSE IF call.m = "update_schedule" THEN 4
    ELSE IF call.m = "update_supplement_data" THEN 5
    ELSE IF call.m = "update_health_data" THEN 7
    ELSE 6

\* An operation that dispatched alerts for a registered id.
AlertOps == {"process_sensor_data", "handle_health_alert"}

\* C5: the calls of one process_sensor_data run in the order validate,
\* analyze, recommend (recommend, schedule, supplement data), alerts, UI
\* health data: a call is made only after every earlier call returned, no
\* stage before or after the alerts is called twice, the alerts are dispatched
\* in the order of the analysis result, one after the other, and a run that
\* returns success has dispatched every alert before the UI update.
C5_StageOrder ==
    last.op = "process_sensor_data" =>
        LET cs == last.calls IN
        /\ \A i, j \in 1..Len(cs) :
            i < j => /\ cs[i].ok
                     /\ StageOf(cs[i]) <= StageOf(cs[j])
                     /\ StageOf(cs[i]) # 6 => StageOf(cs[i]) < StageOf(cs[j])
                     /\ cs[i].k <= cs[j].k \/ StageOf(cs[j]) = 7
                     /\ (cs[i].m \in DispatchMethods /\ cs[j].m \in DispatchMethods) => cs[i].k < cs[j].k
        /\ \A i \in 1..Len(cs) :
            /\ StageOf(cs[i]) = 6 <=> cs[i].k \in 1..Len(last.alerts)
            /\ (cs[i].m \in DispatchMethods /\ cs[i].k > 1) => Dispatches(cs, cs[i].k - 1) # {}
            /\ cs[i].m = "recommend" => Truthy(DictGet(last.ar, "update_recommendation", PyFalse))
        /\ last.result = RSuccess =>
            /\ Len(cs) >= 3
            /\ cs[1].m = "process_data" /\ cs[2].m = "analyze"
            /\ cs[Len(cs)].m = "update_health_data"
            /\ \A k \in 1..Len(last.alerts) : Dispatches(cs, k) # {}

\* C5 witness: a successful run with a recommendation update and two alerts.
C5_Witness ==
    /\ last.op = "process_sensor_data"
    /\ last.result = RSuccess
    /\ Len(last.alerts) = 2
    /\ \E i \in 1..Len(last.calls) : last.calls[i].m = "update_supplement_data"

\* The user has the notify_healthcare_provider setting in the stored data.
NotifySetting(id) == Truthy(DictGet(StoredData(id), "notify_healthcare_provider", PyFalse))

\* C6: for a registered user whose notify_healthcare_provider setting is
\* true, every alert of severity high that was handled caused exactly one
\* urgent notification and exactly one healthcare-provider notification.
C6_HighAlertNotifiesProvider ==
    (last.op \in AlertOps /\ last.result = RSuccess /\ last.id \in DOMAIN active_users)
        => \A k \in 1..Len(last.alerts) :
            (SeverityOf(last.alerts[k]) = "high" /\ NotifySetting(last.id))
                => /\ Cardinality(CallsOf(last.calls, "send_urgent_notification", k)) = 1
                   /\ Cardinality(CallsOf(last.calls, "_notify_healthcare_provider", k)) = 1

\* The method the dispatch of an alert of a severity calls.
DispatchFor(severity) ==
    IF severity = "high" THEN "send_urgent_notification"
    ELSE IF severity = "medium" THEN "send_notification"
    ELSE "add_to_health_report"

\* C7: an alert of severity high, medium or low (given in the alert) is
\* dispatched by at most one user-interface call, exactly one when the
\* operation returned success, and that call is the urgent notification for
\* high, the standard notification for medium, the report append for low; a
\* low alert causes no healthcare-provider notification either.
C7_SeverityDispatch ==
    last.op \in AlertOps =>
        \A k \in 1..Len(last.alerts) :
            ("severity" \in DOMAIN last.alerts[k] /\ last.alerts[k].severity \in {"high", "medium", "low"})
                => /\ Cardinality(Dispatches(last.calls, k)) <= 1
                   /\ last.result = RSuccess => Cardinality(Dispatches(last.calls, k)) = 1
                   /\ \A i \in Dispatches(last.calls, k) :
                        last.calls[i].m = DispatchFor(last.alerts[k].severity)
                   /\ last.alerts[k].severity = "low"
                        => CallsOf(last.calls, "_notify_healthcare_provider", k) = {}

\* C7 witness: a run returned success after it dispatched a high and a low
\* alert.
C7_Witness ==
    /\ last.op = "process_sensor_data"
    /\ last.result = RSuccess
    /\ Len(last.alerts) = 2
    /\ last.alerts[1] = [message |-> "m", severity |-> "high"]
    /\ last.alerts[2] = [message |-> "m", severity |-> "low"]

\* C8: an alert without severity, or with a severity outside low, medium,
\* high, is handled as medium: one standard notification, no urgent
\* notification and no report append.
C8_UnknownSeverityIsMedium ==
    (last.op \in AlertOps /\ last.result = RSuccess)
        => \A k \in 1..Len(last.alerts) :
            ("severity" \notin DOMAIN last.alerts[k] \/ last.alerts[k].severity \notin {"high", "medium", "low"})
                => /\ Cardinality(CallsOf(last.calls, "send_notification", k)) = 1
                   /\ CallsOf(last.calls, "send_urgent_notification", k) = {}
                   /\ CallsOf(last.calls, "add_to_health_report", k) = {}

\* C9: when process_sensor_data has reached the alerts and the only calls
\* that failed are alert dispatches, every alert has been attempted, the UI
\* health-data update has run and the call returned success.
C9_AlertFailureIsolated ==
    (/\ last.op = "process_sensor_data"
     /\ Analyzed(last.calls)
     /\ \A i \in 1..Len(last.calls) : ~last.calls[i].ok => last.calls[i].m \in DispatchMethods)
        => /\ \A k \in 1..Len(last.alerts) : Dispatches(last.calls, k) # {}
           /\ \E i \in 1..Len(last.calls) : last.calls[i].m = "update_health_data"
           /\ last.result = RSuccess

\* C10: when the sensor stage rejects the payload (process_data raises) for
\* a registered id, process_data is the only call made, the operation does
\* not return a result, and nothing changes but that user's last_activity.
C10_InvalidSensorDataAborts ==
    [][(/\ last'.op = "process_sensor_data"
        /\ last'.id \in DOMAIN active_users
        /\ Len(last'.calls) >= 1
        /\ ~last'.calls[1].ok)
        => (/\ Len(last'.calls) = 1
            /\ last'.calls[1].m = "process_data"
            /\ last'.result = RRaised
            /\ registered' = registered
            /\ DOMAIN active_users' = DOMAIN active_users
            /\ \A id \in DOMAIN active_users :
                active_users'[id] = IF id = last'.id
                                    THEN [active_users[id] EXCEPT !.last_activity = isoformat(now)]
                                    ELSE active_users[id])]_vars

\* C10 witness: the sensor stage rejected a payload after the user's
\* registration, and the user's last_activity is the time of the call.
C10_Witness ==
    /\ last.op = "process_sensor_data"
    /\ last.id \in DOMAIN active_users
    /\ Len(last.calls) = 1
    /\ ~last.calls[1].ok
    /\ active_users[last.id].last_activity = isoformat(now)
    /\ active_users[last.id].registered_at # isoformat(now)

\* C11: get_health_report for a registered id, with today the day the clock
\* shows, returns the window <<today, today>> for daily, <<today - 7, today>>
\* for weekly and <<today - 30, today>> for monthly whenever the collaborators
\* it queries return; for any other report type it returns the "Invalid
\* report type" error and has called no collaborator.
C11_ReportWindow ==
    (last.op = "get_health_report" /\ last.id \in DOMAIN active_users) =>
        IF last.report_type \in {"daily", "weekly", "monthly"}
        THEN /\ last.result \in {RSuccess, RRaised}
             /\ (\A i \in 1..Len(last.calls) : last.calls[i].ok) => last.result = RSuccess
             /\ last.result = RSuccess =>
                    /\ Len(last.window) = 2
                    /\ last.window[2] = now
                    /\ last.report_type = "daily" => last.window[1] = now
                    /\ last.report_type = "weekly" => last.window[1] = now - 7
                    /\ last.report_type = "monthly" => last.window[1] = now - 30
        ELSE /\ last.result = RInvalidReport
             /\ last.calls = <<>>
             /\ last.window = <<>>

\* C11 witness: a weekly report was returned on day 1.
C11_Witness ==
    /\ last.op = "get_health_report"
    /\ last.result = RSuccess
    /\ last.report_type = "weekly"
    /\ now = 1
    /\ last.window = <<now - 7, now>>

\* C12: a get_health_report call that returns the "Invalid report type"
\* error leaves the registry, last_activity of the user included, as it was
\* before the call.
C12_InvalidReportTypeNoMutation ==
    [][(last'.op = "get_health_report" /\ last'.result = RInvalidReport)
        => active_users' = active_users]_vars

\* C13: after any of the seven operations returned success for a registered
\* id, that user's last_activity is the time of the call.
C13_SuccessSetsLastActivity ==
    (last.op \in LookupOps /\ last.result = RSuccess)
        => active_users[last.id].last_activity = isoformat(now)

\* A thread whose call of op for id has returned result.
Returned(th, op, id, result) ==
    /\ threads[th].op = op
    /\ threads[th].pc = "done"
    /\ threads[th].id = id
    /\ threads[th].result = result

\* C14: of two register_user calls for the same id made from two threads,
\* at most one returns True, and the profile in the registry is the one the
\* call that returned True built (its registered_at).
C14_RegisterAtomic ==
    \A id \in PipelineIds : \A t1 \in Threads :
        Returned(t1, "register_user", id, RTrue) =>
            /\ id \in DOMAIN active_users
            /\ active_users[id].registered_at = threads[t1].tmp.registered_at
            /\ \A t2 \in Threads \ {t1} : ~Returned(t2, "register_user", id, RTrue)

\* The later of two times.
Latest(a, b) == IF a >= b THEN a ELSE b

\* C15: when two process_sensor_data calls for the same id, made from two
\* threads, have returned, the user's last_activity is the later of the two
\* timestamps the calls took.
C15_LatestTimestampWins ==
    \A id \in PipelineIds : \A t1, t2 \in Threads :
        (/\ t1 # t2
         /\ Returned(t1, "process_sensor_data", id, RSuccess)
         /\ Returned(t2, "process_sensor_data", id, RSuccess))
            => active_users[id].last_activity = isoformat(Latest(threads[t1].t, threads[t2].t))

\* C16: when two update_user_profile calls for the same id, made from two
\* threads with patches that have no key in common, have returned, the
\* stored data has every key of both patches with the patch's value.
C16_ConcurrentUpdatesLinearized ==
    \A id \in PipelineIds : \A t1, t2 \in Threads :
        (/\ t1 # t2
         /\ Returned(t1, "update_user_profile", id, RSuccess)
         /\ Returned(t2, "update_user_profile", id, RSuccess)
         /\ DOMAIN threads[t1].data \cap DOMAIN threads[t2].data = {})
            => \A th \in {t1, t2} : \A key \in DOMAIN threads[th].data :
                /\ key \in DOMAIN StoredData(id)
                /\ StoredData(id)[key] = threads[th].data[key]

ToggleKeys == {Toggles[i][1] : i \in 1..Len(Toggles)}

\* The positions in cs of the update_user_settings calls.
SettingsCalls(cs) == {i \in 1..Len(cs) : cs[i].m = "update_user_settings"}

\* C18: update_user_profile with the empty patch on a registered id leaves
\* the stored data, decrypted, as it was before the call, and calls no
\* collaborator's update_user_settings.
C18_EmptyPatchIdentity ==
    [][(/\ last'.op = "update_user_profile"
        /\ last'.id \in DOMAIN active_users
        /\ last'.data = <<>>)
        => (/\ decrypt_user_data(active_users'[last'.id].encrypted_data)
                = decrypt_user_data(active_users[last'.id].encrypted_data)
            /\ SettingsCalls(last'.calls) = {})]_vars

\* C18 witness: an update with the empty patch returned success for a user
\* whose stored data has a changed name and a toggle key.
C18_Witness ==
    /\ last.op = "update_user_profile"
    /\ last.result = RSuccess
    /\ last.data = <<>>
    /\ last.id \in DOMAIN active_users
    /\ "update_sensor_settings" \in DOMAIN StoredData(last.id)
    /\ StoredData(last.id).name = "n2"

\* C19: an update_user_profile call on a registered id that returns success
\* has stored data that maps every key of the patch to the patch's value and
\* every other key to its value before the call; every update_user_settings
\* call it makes goes to a collaborator whose toggle key is in the patch, and
\* a patch without a toggle key causes no update_user_settings call.
C19_PatchMergeAndToggles ==
    [][(last'.op = "update_user_profile" /\ last'.id \in DOMAIN active_users)
        => LET old == decrypt_user_data(active_users[last'.id].encrypted_data)
               new == decrypt_user_data(active_users'[last'.id].encrypted_data)
               patch == last'.data
               cs == last'.calls
           IN /\ last'.result = RSuccess =>
                    /\ DOMAIN new = DOMAIN old \cup DOMAIN patch
                    /\ \A key \in DOMAIN new :
                        new[key] = IF key \in DOMAIN patch THEN patch[key] ELSE old[key]
              /\ \A i \in SettingsCalls(cs) :
                    \E j \in 1..Len(Toggles) : Toggles[j][2] = cs[i].c /\ Toggles[j][1] \in DOMAIN patch
              /\ DOMAIN patch \cap ToggleKeys = {} => SettingsCalls(cs) = {}]_vars

\* C19 witness: a patch with the user-interface toggle and a new name was
\* applied to data that had the sensor toggle: the settings went to the user
\* interface only, the name is the new one, the sensor toggle is kept.
C19_Witness ==
    /\ last.op = "update_user_profile"
    /\ last.result = RSuccess
    /\ last.data = [update_ui_settings |-> PyTrue, name |-> "n2"]
    /\ {last.calls[i].c : i \in SettingsCalls(last.calls)} = {"ui"}
    /\ StoredData(last.id).name = "n2"
    /\ "update_sensor_settings" \in DOMAIN StoredData(last.id)
    /\ StoredData(last.id).update_sensor_settings = PyFalse

\* The methods of the recommendation stage, in the order of their calls.
RecommendMethods == <<"recommend", "update_schedule", "update_supplement_data">>

\* C20: in a process_sensor_data run whose analyzer returned a result, when
\* update_recommendation is true recommend is called exactly once, the
\* schedule update and the supplement update at most once and, when the run
\* returns success, exactly once, in the order recommend, update_schedule,
\* update_supplement_data; when update_recommendation is false or absent
\* none of the three is called.
C20_RecommendationGate ==
    (last.op = "process_sensor_data" /\ Analyzed(last.calls)) =>
        LET cs == last.calls
            n(m) == Cardinality(CallsOf(cs, m, 0))
        IN IF "update_recommendation" \in DOMAIN last.ar /\ last.ar.update_recommendation = PyTrue
           THEN /\ n("recommend") = 1
                /\ \A j \in 1..Len(RecommendMethods) : n(RecommendMethods[j]) <= 1
                /\ last.result = RSuccess =>
                    /\ \A j \in 1..Len(RecommendMethods) : n(RecommendMethods[j]) = 1
                    /\ \A j \in 1..Len(RecommendMethods) : cs[2 + j].m = RecommendMethods[j]
           ELSE \A j \in 1..Len(RecommendMethods) : n(RecommendMethods[j]) = 0

\* C20 witness: a run with one alert returned success, its analysis result
\* having update_recommendation true, with one call of each method of the
\* recommendation stage.
C20_Witness ==
    /\ last.op = "process_sensor_data"
    /\ last.result = RSuccess
    /\ "update_recommendation" \in DOMAIN last.ar
    /\ last.ar.update_recommendation = PyTrue
    /\ Len(last.alerts) = 1
    /\ \A j \in 1..Len(RecommendMethods) :
        Cardinality(CallsOf(last.calls, RecommendMethods[j], 0)) = 1

\* C21: a call with id A, whatever it returns, leaves the registry entry of
\* every other id as it was and adds no entry but that of A; an id that is
\* in the registry stays in it, with its id and its registered_at.
C21_CrossUserIsolation ==
    [][/\ \A b \in DOMAIN active_users :
            /\ b \in DOMAIN active_users'
            /\ active_users'[b].id = b
            /\ active_users'[b].registered_at = active_users[b].registered_at
            /\ b # last'.id => active_users'[b] = active_users[b]
       /\ \A b \in DOMAIN active_users' \ DOMAIN active_users :
            /\ b = last'.id
            /\ active_users'[b].id = b]_vars

\* C21 witness: an update of the profile of u1 returned success after the
\* registration of u2, and the entry of u2 has the data and the
\* last_activity of its registration, which are not those of u1.
C21_Witness ==
    /\ last.op = "update_user_profile"
    /\ last.result = RSuccess
    /\ last.id = "u1"
    /\ last.data # <<>>
    /\ "u2" \in DOMAIN active_users
    /\ active_users["u2"].last_activity = active_users["u2"].registered_at
    /\ active_users["u2"].last_activity # active_users["u1"].last_activity
    /\ StoredData("u2") # StoredData("u1")
====
